---- MODULE Spec2Model ----
(***************************************************************************)
(* CIM document generation pipeline and PDF export of the CIM Automation   *)
(* Platform: AIService, CIMService, TemplateService, PDFService and the    *)
(* routes that call them.                                                  *)
(*                                                                         *)
(* Text is modelled as a sequence of tokens:                               *)
(*   "ws"          a run of whitespace                                     *)
(*   "boldHeading" the literal  **Executive Summary**                      *)
(*   "hashHeading" the literal  ## Executive Summary                       *)
(*   "aiText"      any other text produced by the generative backend       *)
(*   "tplText"     the body of the static executive-summary template       *)
(*   "text"        any other text produced by an analyzer                  *)
(***************************************************************************)
EXTENDS Integers, Sequences, FiniteSets, TLC

VARIABLES
  apiKey,       \* AIService.apiKey: TRUE when GOOGLE_AI_API_KEY is configured
  isAIEnabled,  \* AIService.isAIEnabled
  pc,           \* position of the request being served
  req,          \* inputs of the request being served
  template,     \* what templateService.getTemplate returned
  task,         \* the three analyzer promises of the fan-out
  runs,         \* how many times each analyzer was invoked for the request
  synthCalls,   \* invocations of generateExecutiveSummary for the request
  aiCalls,      \* invocations of the generative backend for the request
  aiCall,       \* state of the backend call: none, pending, hung, returned, threw
  summary,      \* what generateExecutiveSummary returned
  result,       \* outcome of the request: none, success, error
  error,        \* chain of error causes, outermost first
  doc,          \* the document returned by generateCIMContent
  pdf,          \* the export call being served (CIMService.exportToPDF)
  openBrowsers, \* browsers launched by export calls and not closed
  companies,    \* the companies table
  cims,         \* the cims table
  resp,         \* the last request to a company or CIM route and its response
  calc          \* the last call of a pure function: its input and its output

vars == <<apiKey, isAIEnabled, pc, req, template, task, runs, synthCalls,
          aiCalls, aiCall, summary, result, error, doc, pdf, openBrowsers,
          companies, cims, resp, calc>>

genVars == <<apiKey, isAIEnabled, pc, req, template, task, runs, synthCalls,
             aiCalls, aiCall, summary, result, error, doc>>

storeVars == <<companies, cims, resp>>

\* what neither the generation pipeline nor the export touches
restVars == <<storeVars, calc>>

----------------------------------------------------------------------------
(* Bounds *)

\* longest backend response, in tokens
MaxTextLen == 2

----------------------------------------------------------------------------
(* Text *)

AITokens == {"ws", "boldHeading", "hashHeading", "aiText"}

RECURSIVE SeqsUpTo(_, _)
SeqsUpTo(S, n) ==
  IF n = 0 THEN {<<>>}
  ELSE LET shorter == SeqsUpTo(S, n - 1)
       IN shorter \cup {Append(s, x) : s \in {t \in shorter : Len(t) = n - 1}, x \in S}

\* every text the backend may answer with
AITexts == SeqsUpTo(AITokens, MaxTextLen)

RECURSIVE DropLeadingWs(_)
DropLeadingWs(s) ==
  IF s # <<>> /\ Head(s) = "ws" THEN DropLeadingWs(Tail(s)) ELSE s

RECURSIVE DropTrailingWs(_)
DropTrailingWs(s) ==
  IF s # <<>> /\ s[Len(s)] = "ws" THEN DropTrailingWs(SubSeq(s, 1, Len(s) - 1)) ELSE s

\* String.prototype.trim
Trim(s) == DropTrailingWs(DropLeadingWs(s))

\* s.replace(/^\s*<heading>\s*/i, ''): the heading is removed only at the start
StripLeadingHeading(s, heading) ==
  LET body == DropLeadingWs(s)
  IN IF body # <<>> /\ Head(body) = heading THEN DropLeadingWs(Tail(body)) ELSE s

\* the static template of generateExecutiveSummaryContent
FallbackTemplate == <<"ws", "boldHeading", "ws", "tplText", "ws">>


----------------------------------------------------------------------------
(* Inputs of a request *)

Analyzers == {"financial", "market", "roi"}

\* shapes of req.body.financialData (the routes do not validate it):
\*   absent           undefined
\*   empty            {}
\*   series           revenue, netIncome, ... given as arrays
\*   scalarNetIncome  netIncome given as a number, ebitda not given
FinancialDataKinds == {"absent", "empty", "series", "scalarNetIncome"}

\* shapes of companyData.industry: undefined, a string, a truthy non-string
IndustryKinds == {"absent", "string", "nonString"}

----------------------------------------------------------------------------
(* TemplateService *)

\* own keys of TemplateService.templates
OwnTemplates == {"standard-cim", "tech-startup", "manufacturing"}

\* a key every object literal inherits from Object.prototype
InheritedKeys == {"constructor"}

TemplateIds == OwnTemplates \cup InheritedKeys \cup {"unknown-template"}

Undefined == [kind |-> "undefined", id |-> "undefined"]

\* this.templates[templateId]: property lookup follows the prototype chain
Lookup(templateId) ==
  IF templateId \in OwnTemplates THEN [kind |-> "template", id |-> templateId]
  ELSE IF templateId \in InheritedKeys THEN [kind |-> "inherited", id |-> "undefined"]
  ELSE Undefined

\* TemplateService.getTemplate
getTemplate(templateId) ==
  LET t == Lookup(templateId)
  IN IF t = Undefined
     THEN [threw |-> TRUE, value |-> Undefined]
     ELSE [threw |-> FALSE, value |-> t]

----------------------------------------------------------------------------
(* AIService: the three analyzers *)

\* generateFinancialAnalysis reads financialData.revenue and maps netIncome
\* when ebitda is missing; generateROIAnalysis reads financialData.revenue;
\* generateMarketAnalysisContent reads its arguments through ?. only
AnalyzerThrows(a, financialData) ==
  CASE a = "financial" -> financialData \in {"absent", "scalarNetIncome"}
    [] a = "market"    -> FALSE
    [] a = "roi"       -> financialData = "absent"

\* analyzeFinancialData / generateMarketAnalysis / generateROIProjections:
\* the state in which the promise settles
Settled(a, financialData) ==
  IF AnalyzerThrows(a, financialData) THEN "rejected" ELSE "fulfilled"

FinancialContent == <<"ws", "text", "ws">>

MarketContent == <<"ws", "text", "ws">>

MarketRisks == <<"risk1", "risk2", "risk3", "risk4">>

\* a barrier that waits for every promise to settle and ignores rejections
AwaitAllSettled(t) ==
  IF \A a \in Analyzers : t[a] \in {"fulfilled", "rejected"} THEN "resolve"
  ELSE "pending"

\* a barrier that resolves with the first fulfilled promise
AwaitAny(t) ==
  IF \E a \in Analyzers : t[a] = "rejected" THEN "reject"
  ELSE IF \E a \in Analyzers : t[a] = "fulfilled" THEN "resolve"
  ELSE "pending"

\* await Promise.all([...]): rejects on the first rejection, resolves when
\* all three are fulfilled
AwaitAll(t) ==
  IF \E a \in Analyzers : t[a] = "rejected" THEN "reject"
  ELSE IF \A a \in Analyzers : t[a] = "fulfilled" THEN "resolve"
  ELSE "pending"

----------------------------------------------------------------------------
(* AIService: the narrative synthesizer *)

\* constructor: isAIEnabled = !!apiKey, cleared when the client cannot be built
Constructed(key, initFails) == key /\ ~initFails

\* the backend is called whether or not a credential is configured
UseAIAlways(enabled) == TRUE

\* generateExecutiveSummary: if (this.isAIEnabled)
UseAI(enabled) == enabled

\* generateExecutiveSummaryContent: industry.toLowerCase() throws a TypeError
\* when industry is a truthy non-string
generateExecutiveSummaryContent(industry) ==
  IF industry = "nonString"
  THEN [threw |-> TRUE, text |-> <<>>]
  ELSE [threw |-> FALSE, text |-> FallbackTemplate]

NoSummary == [success |-> FALSE, text |-> <<>>, path |-> "none"]

\* outermost error label of each caller of the synthesizer
RouteError(route) ==
  CASE route = "generate"      -> "Failed to generate CIM content"
    [] route = "comprehensive" -> "Comprehensive analysis failed"
    [] route = "summary"       -> "Executive summary generation failed"

----------------------------------------------------------------------------
(* CIMService.compileCIMContent *)

SectionKeys == {"executiveSummary", "companyOverview", "marketAnalysis",
                "financialAnalysis", "investmentHighlights", "roiProjections",
                "riskFactors", "appendices"}

requiredSections == {"executiveSummary", "companyOverview", "marketAnalysis",
                     "financialAnalysis", "roiProjections"}

Includes(s, token) == \E i \in 1..Len(s) : s[i] = token

GrowthStrategyBlock == <<"ws", "growthStrategy", "ws", "text">>

\* an optional property of a request or of a result: undefined, or a value
Absent == [given |-> FALSE, value |-> 0]

NoSeries == [given |-> FALSE, value |-> <<>>]

Given(v) == [given |-> TRUE, value |-> v]

\* an augmentation that appends the block whatever the content holds
AugmentMarketAlways(content) ==
  (IF content.given THEN content.value ELSE <<>>) \o GrowthStrategyBlock

\* the marketAnalysis section's content: (marketAnalysis.content || '') and,
\* unless it includes 'Growth Strategy', the Growth Strategy block
AugmentMarket(content) ==
  LET text == IF content.given THEN content.value ELSE <<>>
  IN text \o (IF Includes(text, "growthStrategy") THEN <<>> ELSE GrowthStrategyBlock)

\* extractRiskFactors: the five default statements
DefaultRisks == <<"competition", "cyclicality", "regulatory", "keyPersonnel",
                  "technology">>

\* an extraction that adds the default statements to the supplied risks
extractRiskFactorsMixed(financialRisks, marketRisks) ==
  (IF financialRisks.given THEN financialRisks.value ELSE <<>>)
    \o (IF marketRisks.given THEN marketRisks.value ELSE <<>>)
    \o DefaultRisks

\* extractRiskFactors over financialAnalysis.riskFactors and
\* marketAnalysis.risks: both are pushed when present, the defaults when the
\* list is still empty
extractRiskFactors(financialRisks, marketRisks) ==
  LET risks == (IF financialRisks.given THEN financialRisks.value ELSE <<>>)
                 \o (IF marketRisks.given THEN marketRisks.value ELSE <<>>)
  IN IF Len(risks) = 0 THEN DefaultRisks ELSE risks

\* generateFinancialChart: a canvas and its drawing script
generateFinancialChart == <<"ws", "canvasChart", "ws">>

\* the executiveSummary section's content
SummaryContent(text) ==
  Trim(StripLeadingHeading(StripLeadingHeading(text, "boldHeading"), "hashHeading"))

NoDoc == [templateId |-> "none", sections |-> <<>>]

\* two sections given the same order value
SectionOrderDup(k) ==
  CASE k = "executiveSummary"     -> 1
    [] k = "companyOverview"      -> 2
    [] k = "marketAnalysis"       -> 3
    [] k = "financialAnalysis"    -> 4
    [] k = "investmentHighlights" -> 5
    [] k = "roiProjections"       -> 5
    [] k = "riskFactors"          -> 7
    [] k = "appendices"           -> 8

\* the order literal of each section of compiledContent
SectionOrder(k) ==
  CASE k = "executiveSummary"     -> 1
    [] k = "companyOverview"      -> 2
    [] k = "marketAnalysis"       -> 3
    [] k = "financialAnalysis"    -> 4
    [] k = "investmentHighlights" -> 5
    [] k = "roiProjections"       -> 6
    [] k = "riskFactors"          -> 7
    [] k = "appendices"           -> 8

compileCIMContent(tpl, summaryText) ==
  [templateId |-> tpl.id,
   sections |->
     [k \in SectionKeys |->
        CASE k = "executiveSummary" ->
               [order |-> SectionOrder(k), kind |-> "text",
                body |-> SummaryContent(summaryText)]
          [] k = "companyOverview" ->
               [order |-> SectionOrder(k), kind |-> "block",
                body |-> <<"description", "industry", "keyHighlights">>]
          [] k = "marketAnalysis" ->
               [order |-> SectionOrder(k), kind |-> "text",
                body |-> AugmentMarket(Given(MarketContent))]
          [] k = "financialAnalysis" ->
               [order |-> SectionOrder(k), kind |-> "text",
                body |-> FinancialContent \o generateFinancialChart]
          [] k = "investmentHighlights" ->
               [order |-> SectionOrder(k), kind |-> "block",
                body |-> <<"strongFinancials", "marketOpportunity",
                           "competitiveAdvantage", "growthPotential",
                           "managementTeam">>]
          [] k = "roiProjections" ->
               [order |-> SectionOrder(k), kind |-> "text", body |-> <<"ws", "text">>]
          [] k = "riskFactors" ->
               [order |-> SectionOrder(k), kind |-> "list",
                \* generateFinancialAnalysis returns no riskFactors
                body |-> extractRiskFactors(NoSeries, Given(MarketRisks))]
          [] k = "appendices" ->
               [order |-> SectionOrder(k), kind |-> "block",
                body |-> <<"financialStatements", "marketResearch",
                           "legalDocuments">>]]]

----------------------------------------------------------------------------
(* One request through the generation pipeline *)

NoTasks == [a \in Analyzers |-> "notStarted"]

NoRuns == [a \in Analyzers |-> 0]

\* a request enters a route handler; nothing is kept from the request before
Begin(route, templateId, financialData, industry, first) ==
  /\ pc \in {"idle", "done"}
  /\ req' = [route |-> route, templateId |-> templateId,
             financialData |-> financialData, industry |-> industry]
  /\ pc' = first
  /\ template' = Undefined
  /\ task' = NoTasks
  /\ runs' = NoRuns
  /\ synthCalls' = 0
  /\ aiCalls' = 0
  /\ aiCall' = "none"
  /\ summary' = NoSummary
  /\ result' = "none"
  /\ error' = <<>>
  /\ doc' = NoDoc
  /\ UNCHANGED <<apiKey, isAIEnabled, pdf, openBrowsers, restVars>>

\* POST /cims/:id/generate -> CIMService.generateCIMContent; the company is
\* the stored one, whose industry column is TEXT NOT NULL
StartGenerate ==
  \E templateId \in TemplateIds, financialData \in FinancialDataKinds :
    Begin("generate", templateId, financialData, "string", "getTemplate")

\* POST /ai/comprehensive-analysis; the body is not validated
StartComprehensive ==
  \E financialData \in FinancialDataKinds, industry \in IndustryKinds :
    Begin("comprehensive", "none", financialData, industry, "fanOut")

\* POST /ai/executive-summary; the body is not validated
StartSummary ==
  \E industry \in IndustryKinds :
    Begin("summary", "none", "absent", industry, "synth")

\* the handler's catch block: the request ends in an error
Fail(cause) ==
  /\ pc' = "done"
  /\ result' = "error"
  /\ error' = <<RouteError(req.route), cause>>

\* generateCIMContent: const template = await templateService.getTemplate(templateId)
GetTemplate ==
  /\ pc = "getTemplate"
  /\ LET r == getTemplate(req.templateId)
     IN IF r.threw
        THEN /\ Fail("Template not found")
             /\ UNCHANGED template
        ELSE /\ template' = r.value
             /\ pc' = "fanOut"
             /\ UNCHANGED <<result, error>>
  /\ UNCHANGED <<apiKey, isAIEnabled, req, task, runs, synthCalls, aiCalls,
                 aiCall, summary, doc, pdf, openBrowsers, restVars>>

\* the three analyzer calls in the argument of Promise.all
FanOut ==
  /\ pc = "fanOut"
  /\ task' = [a \in Analyzers |-> "pending"]
  /\ runs' = [a \in Analyzers |-> runs[a] + 1]
  /\ pc' = "awaitAll"
  /\ UNCHANGED <<apiKey, isAIEnabled, req, template, synthCalls, aiCalls,
                 aiCall, summary, result, error, doc, pdf, openBrowsers, restVars>>

\* one analyzer's promise settles; the bodies hold no await, so the code
\* settles them in the order financial, market, roi, one of the orders here
Settle(a) ==
  /\ task[a] = "pending"
  /\ task' = [task EXCEPT ![a] = Settled(a, req.financialData)]
  /\ UNCHANGED <<apiKey, isAIEnabled, pc, req, template, runs, synthCalls,
                 aiCalls, aiCall, summary, result, error, doc, pdf, openBrowsers, restVars>>

SettleFinancial == Settle("financial")

SettleMarket == Settle("market")

SettleROI == Settle("roi")

AnalyzerError(t) ==
  IF t["financial"] = "rejected" THEN "Failed to analyze financial data"
  ELSE IF t["market"] = "rejected" THEN "Failed to generate market analysis"
  ELSE "Failed to generate ROI projections"

\* the handler resumes from await Promise.all
Barrier ==
  /\ pc = "awaitAll"
  /\ AwaitAll(task) # "pending"
  /\ IF AwaitAll(task) = "reject"
     THEN Fail(AnalyzerError(task))
     ELSE /\ pc' = "synth"
          /\ UNCHANGED <<result, error>>
  /\ UNCHANGED <<apiKey, isAIEnabled, req, template, task, runs, synthCalls,
                 aiCalls, aiCall, summary, doc, pdf, openBrowsers, restVars>>

\* generateExecutiveSummary returned or threw: what its caller does next
AfterSummary(r, path) ==
  IF r.threw
  THEN /\ Fail("Failed to generate executive summary")
       /\ UNCHANGED summary
  ELSE /\ summary' = [success |-> TRUE, text |-> r.text, path |-> path]
       /\ UNCHANGED error
       /\ IF req.route = "generate"
          THEN pc' = "compile" /\ UNCHANGED result
          ELSE pc' = "done" /\ result' = "success"

\* generateExecutiveSummary is entered: the backend is called when AI is
\* enabled, the static template is used otherwise
Synthesize ==
  /\ pc = "synth"
  /\ synthCalls' = synthCalls + 1
  /\ IF UseAI(isAIEnabled)
     THEN /\ aiCalls' = aiCalls + 1
          /\ aiCall' = "pending"
          /\ pc' = "awaitAI"
          /\ UNCHANGED <<summary, result, error>>
     ELSE /\ AfterSummary(generateExecutiveSummaryContent(req.industry), "fallback")
          /\ UNCHANGED <<aiCalls, aiCall>>
  /\ UNCHANGED <<apiKey, isAIEnabled, req, template, task, runs, doc, pdf, openBrowsers, restVars>>

\* model.generateContent resolves and response.text() is returned verbatim
AIReturns ==
  /\ pc = "awaitAI"
  /\ aiCall = "pending"
  /\ \E text \in AITexts :
       AfterSummary([threw |-> FALSE, text |-> text], "ai")
  /\ aiCall' = "returned"
  /\ UNCHANGED <<apiKey, isAIEnabled, req, template, task, runs, synthCalls,
                 aiCalls, doc, pdf, openBrowsers, restVars>>

\* a catch block that calls the backend a second time
RetryOnce(calls) == calls < 2

\* catch (aiError) holds no second call of generateAIExecutiveSummary
RetryAI(calls) == FALSE

\* catch (aiError): the error is logged and the static template is used
AIThrows ==
  /\ pc = "awaitAI"
  /\ aiCall = "pending"
  /\ IF RetryAI(aiCalls)
     THEN /\ aiCalls' = aiCalls + 1
          /\ aiCall' = "pending"
          /\ UNCHANGED <<pc, summary, result, error>>
     ELSE /\ AfterSummary(generateExecutiveSummaryContent(req.industry), "fallback")
          /\ aiCall' = "threw"
          /\ UNCHANGED aiCalls
  /\ UNCHANGED <<apiKey, isAIEnabled, req, template, task, runs, synthCalls,
                 doc, pdf, openBrowsers, restVars>>

\* the backend never answers: await this.model.generateContent(prompt) has
\* no timeout, so nothing resumes the call
AIHangs ==
  /\ pc = "awaitAI"
  /\ aiCall = "pending"
  /\ aiCall' = "hung"
  /\ UNCHANGED <<apiKey, isAIEnabled, pc, req, template, task, runs,
                 synthCalls, aiCalls, summary, result, error, doc, pdf, openBrowsers, restVars>>

\* generateCIMContent: compileCIMContent, then return { success: true, ... }
Compile ==
  /\ pc = "compile"
  /\ doc' = compileCIMContent(template, summary.text)
  /\ result' = "success"
  /\ pc' = "done"
  /\ UNCHANGED <<apiKey, isAIEnabled, req, template, task, runs, synthCalls,
                 aiCalls, aiCall, summary, error, pdf, openBrowsers, restVars>>

Next ==
  \/ StartGenerate
  \/ StartComprehensive
  \/ StartSummary
  \/ GetTemplate
  \/ FanOut
  \/ SettleFinancial
  \/ SettleMarket
  \/ SettleROI
  \/ Barrier
  \/ Synthesize
  \/ AIReturns
  \/ AIThrows
  \/ AIHangs
  \/ Compile

NoRequest == [route |-> "none", templateId |-> "none",
              financialData |-> "absent", industry |-> "absent"]

InitGen ==
  /\ apiKey \in BOOLEAN
  /\ \E initFails \in BOOLEAN : isAIEnabled = Constructed(apiKey, initFails)
  /\ pc = "idle"
  /\ req = NoRequest
  /\ template = Undefined
  /\ task = NoTasks
  /\ runs = NoRuns
  /\ synthCalls = 0
  /\ aiCalls = 0
  /\ aiCall = "none"
  /\ summary = NoSummary
  /\ result = "none"
  /\ error = <<>>
  /\ doc = NoDoc

----------------------------------------------------------------------------
(* PDFService.generateCIMPDF, called by CIMService.exportToPDF *)

\* most browsers that may be open at once
MaxOpenBrowsers == 2

\* shapes of cim.content.financialData:
\*   absent        no financialData key (every generated document)
\*   emptyRevenue  revenue is []
\*   series        revenue and ebitda are non-empty arrays
\*   malformed     revenue is a non-empty array, ebitda is not iterable
ExportFinancialKinds == {"absent", "emptyRevenue", "series", "malformed"}

\* shapes of cim.content.sections:
\*   generated    as compileCIMContent builds them (a canvas chart is embedded)
\*   edited       stored through PUT /cims/:id, without a canvas
\*   nullSection  stored through PUT /cims/:id, one required section is null
\*   missing      content is {} as POST /cims stores it: no sections at all
ExportSectionKinds == {"generated", "edited", "nullSection", "missing"}

\* validateCIMContent: throws 'Missing required CIM sections' when a required
\* section is absent or falsy; no route and no service method calls it
validateCIMContent(sections) ==
  [threw |-> sections \in {"nullSection", "missing"}]

\* templates/cim-template.html: missing (the built-in template is used),
\* a valid Handlebars template, or one with a syntax error
TemplateFiles == {"missing", "valid", "broken"}

\* generateSVGChart: '' when revenue is empty, a TypeError when a series
\* cannot be spread or mapped
generateSVGChart(financialData) ==
  CASE financialData = "malformed" -> [threw |-> TRUE, svg |-> FALSE]
    [] financialData = "series"    -> [threw |-> FALSE, svg |-> TRUE]
    [] OTHER                       -> [threw |-> FALSE, svg |-> FALSE]

\* generateHTMLContent: the chart is generated, the sections are formatted,
\* then the lazily compiled template runs; the first failure is thrown
generateHTMLContent(financialData, sections, templateFile) ==
  IF generateSVGChart(financialData).threw THEN "chart"
  ELSE IF sections = "nullSection" THEN "format"
  ELSE IF templateFile = "broken" THEN "template"
  ELSE "none"

\* the markup holds a canvas: generateFinancialChart's <canvas> and script are
\* part of the financialAnalysis content of every compiled document, whatever
\* the series hold
CanvasInMarkup(sections) == sections = "generated"

\* a wait whose timeout is not caught
AfterWaitUncaught(timedOut) == IF timedOut THEN "wait" ELSE "none"

\* the try/catch around page.waitForFunction: a timeout is logged and dropped
AfterWait(timedOut) == "none"

\* a call that returns without closing its browser
BrowserLeftOpen(browser) == browser

\* finally { if (browser) await browser.close() }
BrowserAfterFinally(browser) ==
  IF browser = "open" THEN "closed" ELSE browser

IdlePdf == [pc |-> "idle", financialData |-> "absent", sections |-> "generated",
            templateFile |-> "missing", browser |-> "undefined",
            failure |-> "none", chartSvg |-> FALSE, waitTimedOut |-> FALSE,
            output |-> "none", result |-> "none"]

\* GET /cims/:id/export -> exportToPDF -> generateCIMPDF
StartExport ==
  /\ pdf.pc \in {"idle", "done"}
  /\ \E financialData \in ExportFinancialKinds, sections \in ExportSectionKinds,
        templateFile \in TemplateFiles :
       pdf' = [IdlePdf EXCEPT !.pc = "launch", !.financialData = financialData,
                              !.sections = sections, !.templateFile = templateFile]
  /\ UNCHANGED <<genVars, openBrowsers, restVars>>

\* a step of the call failed: control goes to catch, then finally
Thrown(cause) == [pdf EXCEPT !.pc = "finally", !.failure = cause]

\* browser = await puppeteer.launch(...)
Launch ==
  /\ pdf.pc = "launch"
  /\ openBrowsers < MaxOpenBrowsers
  /\ \E ok \in BOOLEAN :
       IF ok
       THEN /\ pdf' = [pdf EXCEPT !.pc = "newPage", !.browser = "open"]
            /\ openBrowsers' = openBrowsers + 1
       ELSE /\ pdf' = Thrown("launch")
            /\ UNCHANGED openBrowsers
  /\ UNCHANGED <<genVars, restVars>>

\* const page = await browser.newPage()
NewPage ==
  /\ pdf.pc = "newPage"
  /\ \E ok \in BOOLEAN :
       pdf' = IF ok THEN [pdf EXCEPT !.pc = "html"] ELSE Thrown("newPage")
  /\ UNCHANGED <<genVars, openBrowsers, restVars>>

\* const htmlContent = await this.generateHTMLContent(data)
GenerateHTML ==
  /\ pdf.pc = "html"
  /\ LET cause == generateHTMLContent(pdf.financialData, pdf.sections, pdf.templateFile)
     IN pdf' = IF cause = "none"
               THEN [pdf EXCEPT !.pc = "setContent",
                                !.chartSvg = generateSVGChart(pdf.financialData).svg]
               ELSE Thrown(cause)
  /\ UNCHANGED <<genVars, openBrowsers, restVars>>

\* await page.setContent(htmlContent, { waitUntil: 'networkidle0' })
SetContent ==
  /\ pdf.pc = "setContent"
  /\ \E ok \in BOOLEAN :
       pdf' = IF ok THEN [pdf EXCEPT !.pc = "wait"] ELSE Thrown("setContent")
  /\ UNCHANGED <<genVars, openBrowsers, restVars>>

\* page.waitForFunction(..., { timeout: 5000 }): true at once when the page
\* has no canvas, otherwise the chart script's flag is set or the wait times out
WaitForCharts ==
  /\ pdf.pc = "wait"
  /\ \E timedOut \in (IF CanvasInMarkup(pdf.sections) THEN BOOLEAN ELSE {FALSE}) :
       pdf' = IF AfterWait(timedOut) = "none"
              THEN [pdf EXCEPT !.pc = "capture", !.waitTimedOut = timedOut]
              ELSE [Thrown(AfterWait(timedOut)) EXCEPT !.waitTimedOut = timedOut]
  /\ UNCHANGED <<genVars, openBrowsers, restVars>>

\* const pdfBuffer = await page.pdf(...)
CapturePDF ==
  /\ pdf.pc = "capture"
  /\ \E ok \in BOOLEAN :
       pdf' = IF ok THEN [pdf EXCEPT !.pc = "finally", !.output = "pdfBuffer"]
              ELSE Thrown("capture")
  /\ UNCHANGED <<genVars, openBrowsers, restVars>>

\* finally closes the browser; the call returns pdfBuffer or throws
\* 'PDF generation failed', which exportToPDF rethrows
Finally ==
  /\ pdf.pc = "finally"
  /\ pdf' = [pdf EXCEPT !.pc = "done",
                        !.browser = BrowserAfterFinally(pdf.browser),
                        !.result = IF pdf.failure = "none" THEN "returned" ELSE "threw"]
  /\ openBrowsers' = IF pdf.browser = "open" /\ BrowserAfterFinally(pdf.browser) = "closed"
                     THEN openBrowsers - 1 ELSE openBrowsers
  /\ UNCHANGED <<genVars, restVars>>

NextPDF ==
  \/ StartExport
  \/ Launch
  \/ NewPage
  \/ GenerateHTML
  \/ SetContent
  \/ WaitForCharts
  \/ CapturePDF
  \/ Finally

InitPDF ==
  /\ pdf = IdlePdf
  /\ openBrowsers = 0

----------------------------------------------------------------------------
(* The company and CIM routes over the database (companies.js, cims.js) *)

\* req.user.id as authenticateToken sets it
Users == {"u1", "u2"}

\* most rows of the companies table and of the cims table
MaxCompanies == 2

MaxCims == 2

CompanyIds == 1..MaxCompanies

CimIds == 1..MaxCims

\* updateCIMSchema: status is one of these
Statuses == {"DRAFT", "IN_REVIEW", "APPROVED", "PUBLISHED"}

\* shapes of the content column: {} or the body of POST /cims ("created"),
\* the body of PUT /cims/:id ("edited"), the pipeline's document ("generated")
ContentKinds == {"created", "edited", "generated"}

NoCompany == "none"

NoCim == [userId |-> "none", companyId |-> 0, status |-> "none",
          content |-> "none", aiAnalysis |-> FALSE]

NoResp == [op |-> "none", user |-> "none", ok |-> FALSE, owners |-> {}]

\* a response: owners are the userIds of every row the handler returned,
\* changed or deleted, as they were stored
Respond(op, user, ok, owners) ==
  resp' = [op |-> op, user |-> user, ok |-> ok, owners |-> owners]

\* prisma.company.findFirst({ where: { id, userId: req.user.id } })
findFirstCompany(id, userId) == companies[id] = userId

\* a lookup of a CIM by id alone
findFirstCIMAnyUser(id, userId) == cims[id] # NoCim

\* prisma.cIM.findFirst({ where: { id: req.params.id, userId: req.user.id } })
findFirstCIM(id, userId) == cims[id] # NoCim /\ cims[id].userId = userId

\* prisma.cIM.findMany({ where: { userId: req.user.id, ... } })
findManyCIMs(userId) == {c \in CimIds : cims[c] # NoCim /\ cims[c].userId = userId}

\* prisma.company.findMany({ where: { userId: req.user.id, ... } })
findManyCompanies(userId) == {k \in CompanyIds : companies[k] = userId}

\* the CIMs of a company: include: { cims: ... } and the foreign key
CimsOf(k) == {c \in CimIds : cims[c] # NoCim /\ cims[c].companyId = k}

\* the owners of a CIM row and of the company row included with it
CimOwners(c) == {cims[c].userId, companies[cims[c].companyId]}

\* GET /companies: each company comes with the count of its CIMs, no CIM row
ListCompanies ==
  \E u \in Users :
    /\ Respond("listCompanies", u, TRUE,
               {companies[k] : k \in findManyCompanies(u)})
    /\ UNCHANGED <<companies, cims>>
    /\ UNCHANGED <<genVars, pdf, openBrowsers, calc>>

\* GET /companies/:id
GetCompany ==
  \E u \in Users, k \in CompanyIds :
    /\ IF findFirstCompany(k, u)
       THEN Respond("getCompany", u, TRUE,
                    {companies[k]} \cup {cims[c].userId : c \in CimsOf(k)})
       ELSE Respond("getCompany", u, FALSE, {})
    /\ UNCHANGED <<companies, cims>>
    /\ UNCHANGED <<genVars, pdf, openBrowsers, calc>>

\* POST /companies
CreateCompany ==
  \E u \in Users, k \in CompanyIds :
    /\ companies[k] = NoCompany
    /\ companies' = [companies EXCEPT ![k] = u]
    /\ Respond("createCompany", u, TRUE, {u})
    /\ UNCHANGED cims
    /\ UNCHANGED <<genVars, pdf, openBrowsers, calc>>

\* PUT /companies/:id: name, industry and description change, userId does not
UpdateCompany ==
  \E u \in Users, k \in CompanyIds :
    /\ IF findFirstCompany(k, u)
       THEN Respond("updateCompany", u, TRUE, {companies[k]})
       ELSE Respond("updateCompany", u, FALSE, {})
    /\ UNCHANGED <<companies, cims>>
    /\ UNCHANGED <<genVars, pdf, openBrowsers, calc>>

\* DELETE /companies/:id: cims_companyId_fkey is ON DELETE RESTRICT, so the
\* delete of a company that still has CIMs throws and the row stays
DeleteCompany ==
  \E u \in Users, k \in CompanyIds :
    /\ IF findFirstCompany(k, u) /\ CimsOf(k) = {}
       THEN /\ companies' = [companies EXCEPT ![k] = NoCompany]
            /\ Respond("deleteCompany", u, TRUE, {companies[k]})
       ELSE /\ UNCHANGED companies
            /\ Respond("deleteCompany", u, FALSE, {})
    /\ UNCHANGED cims
    /\ UNCHANGED <<genVars, pdf, openBrowsers, calc>>

\* GET /cims
ListCIMs ==
  \E u \in Users :
    /\ Respond("listCIMs", u, TRUE,
               UNION {CimOwners(c) : c \in findManyCIMs(u)})
    /\ UNCHANGED <<companies, cims>>
    /\ UNCHANGED <<genVars, pdf, openBrowsers, calc>>

\* GET /cims/:id
GetCIM ==
  \E u \in Users, c \in CimIds :
    /\ IF findFirstCIM(c, u)
       THEN Respond("getCIM", u, TRUE, CimOwners(c))
       ELSE Respond("getCIM", u, FALSE, {})
    /\ UNCHANGED <<companies, cims>>
    /\ UNCHANGED <<genVars, pdf, openBrowsers, calc>>

\* a creation that stores another status than the literal of the handler
InitialStatusInReview == "IN_REVIEW"

\* POST /cims: status: 'DRAFT'
InitialStatus == "DRAFT"

\* POST /cims: the company must be the requester's
CreateCIM ==
  \E u \in Users, k \in CompanyIds, c \in CimIds :
    /\ cims[c] = NoCim
    /\ IF findFirstCompany(k, u)
       THEN /\ cims' = [cims EXCEPT ![c] =
                          [userId |-> u, companyId |-> k,
                           status |-> InitialStatus, content |-> "created",
                           aiAnalysis |-> FALSE]]
            /\ Respond("createCIM", u, TRUE, {u, companies[k]})
       ELSE /\ UNCHANGED cims
            /\ Respond("createCIM", u, FALSE, {})
    /\ UNCHANGED companies
    /\ UNCHANGED <<genVars, pdf, openBrowsers, calc>>

\* PUT /cims/:id: data is { ...(content && {content}), ...(status && {status}) }
UpdateData(cim, content, status) ==
  [cim EXCEPT !.content = IF content THEN "edited" ELSE @,
              !.status = IF status = "absent" THEN @ ELSE status]

\* PUT /cims/:id
UpdateCIM ==
  \E u \in Users, c \in CimIds, content \in BOOLEAN,
     status \in Statuses \cup {"absent"} :
    /\ IF findFirstCIM(c, u)
       THEN /\ cims' = [cims EXCEPT ![c] = UpdateData(cims[c], content, status)]
            /\ Respond("updateCIM", u, TRUE, CimOwners(c))
       ELSE /\ UNCHANGED cims
            /\ Respond("updateCIM", u, FALSE, {})
    /\ UNCHANGED companies
    /\ UNCHANGED <<genVars, pdf, openBrowsers, calc>>

\* a generation that also puts the document back to DRAFT
GenerateDataResetsStatus(cim) ==
  [cim EXCEPT !.content = "generated", !.aiAnalysis = TRUE, !.status = "DRAFT"]

\* POST /cims/:id/generate: data is { content, aiAnalysis, updatedAt }
GenerateData(cim) ==
  [cim EXCEPT !.content = "generated", !.aiAnalysis = TRUE]

\* a handler that stores the content it has when generateCIMContent throws
AfterGeneratePartial(cim, generated) ==
  IF generated THEN GenerateData(cim) ELSE [cim EXCEPT !.content = "generated"]

\* POST /cims/:id/generate: prisma.cIM.update follows the await of
\* generateCIMContent inside the try, so a throw skips it
AfterGenerate(cim, generated) ==
  IF generated THEN GenerateData(cim) ELSE cim

\* POST /cims/:id/generate: generateCIMContent returns (generated) or throws,
\* and the row is updated only after it returned
GenerateCIM ==
  \E u \in Users, c \in CimIds, generated \in BOOLEAN :
    /\ IF findFirstCIM(c, u)
       THEN /\ cims' = [cims EXCEPT ![c] = AfterGenerate(cims[c], generated)]
            /\ Respond("generateCIM", u, generated, CimOwners(c))
       ELSE /\ UNCHANGED cims
            /\ Respond("generateCIM", u, FALSE, {})
    /\ UNCHANGED companies
    /\ UNCHANGED <<genVars, pdf, openBrowsers, calc>>

\* GET /cims/:id/export: exportToPDF returns the buffer or throws
ExportCIM ==
  \E u \in Users, c \in CimIds, exported \in BOOLEAN :
    /\ IF findFirstCIM(c, u)
       THEN Respond("exportCIM", u, exported, CimOwners(c))
       ELSE Respond("exportCIM", u, FALSE, {})
    /\ UNCHANGED <<companies, cims>>
    /\ UNCHANGED <<genVars, pdf, openBrowsers, calc>>

\* DELETE /cims/:id
DeleteCIM ==
  \E u \in Users, c \in CimIds :
    /\ IF findFirstCIM(c, u)
       THEN /\ cims' = [cims EXCEPT ![c] = NoCim]
            /\ Respond("deleteCIM", u, TRUE, {cims[c].userId})
       ELSE /\ UNCHANGED cims
            /\ Respond("deleteCIM", u, FALSE, {})
    /\ UNCHANGED companies
    /\ UNCHANGED <<genVars, pdf, openBrowsers, calc>>

NextStore ==
  \/ ListCompanies
  \/ GetCompany
  \/ CreateCompany
  \/ UpdateCompany
  \/ DeleteCompany
  \/ ListCIMs
  \/ GetCIM
  \/ CreateCIM
  \/ UpdateCIM
  \/ GenerateCIM
  \/ ExportCIM
  \/ DeleteCIM

InitStore ==
  /\ companies = [k \in CompanyIds |-> NoCompany]
  /\ cims = [c \in CimIds |-> NoCim]
  /\ resp = NoResp

----------------------------------------------------------------------------
(* Pure functions: the PDF template's section sequence, the ROI analyzer and
   the financial analyzer, each applied to an input drawn from a bounded set *)

NoCalc == [op |-> "none", in |-> "none", done |-> FALSE, out |-> "none"]

\* a call of op on input, not yet evaluated
Call(op, input) == [op |-> op, in |-> input, done |-> FALSE, out |-> "none"]

\* the call in calc is evaluated
Return(op, out) ==
  /\ calc.op = op
  /\ ~calc.done
  /\ calc' = [calc EXCEPT !.done = TRUE, !.out = out]
  /\ UNCHANGED <<genVars, pdf, openBrowsers, storeVars>>

\* the injective sequences over the members of S, each member once
Perms(S) ==
  {p \in [1..Cardinality(S) -> S] : \A i, j \in 1..Cardinality(S) : p[i] = p[j] => i = j}

\* the section keys of the documents rendered here
RenderKeys == {"executiveSummary", "companyOverview", "roiProjections", "appendices"}

\* the largest order value of a stored section; 0 stands for no order at all
MaxOrder == 3

\* the sections object of a stored document: its keys in insertion order and
\* the order value of each
Documents ==
  UNION {[keys : Perms(S), order : [S -> 0..MaxOrder]] : S \in SUBSET RenderKeys}

\* the sections of a document as compileCIMContent builds them
CompiledSections ==
  [keys  |-> <<"executiveSummary", "companyOverview", "marketAnalysis",
               "financialAnalysis", "investmentHighlights", "roiProjections",
               "riskFactors", "appendices">>,
   order |-> [k \in SectionKeys |-> SectionOrder(k)]]

\* formatSectionsForTemplate: Object.keys(sections).forEach fills formatted in
\* the insertion order of sections, with order: section.order || 0
formatSectionsForTemplate(d) == d

\* getDefaultTemplate: one {{#if sections.<key>}} block per key, in this
\* sequence; no block for investmentHighlights or appendices, no use of order
DefaultTemplateBlocks ==
  <<"executiveSummary", "companyOverview", "marketAnalysis",
    "financialAnalysis", "roiProjections", "riskFactors">>

\* the section keys of the markup, in the sequence the template emits them
RenderSequence(d) ==
  LET has(k) == \E i \in 1..Len(d.keys) : d.keys[i] = k
  IN SelectSeq(DefaultTemplateBlocks, has)

\* generateHTMLContent with the built-in template
RenderDocument ==
  Return("render", RenderSequence(formatSectionsForTemplate(calc.in)))

\* generateROIAnalysis: the literals of the three scenarios, the multiples
\* and the payback periods in tenths
baseIRR == 22

optimisticIRR == 28

conservativeIRR == 18

baseMultiple == 42

optimisticMultiple == 58

conservativeMultiple == 31

basePayback == 38

optimisticPayback == 32

conservativePayback == 45

\* assumptions?.investmentAmount || 5000000
DefaultInvestment == 5000000

\* assumptions?.investmentAmount of a request: absent (no assumptions or no
\* investmentAmount) or a number
Investments == {Absent} \cup {Given(v) : v \in {0, 1000000, 5000000, 10000000}}

\* the optimistic and the conservative scenario exchanged
ScenariosSwapped ==
  [baseCase     |-> [irr |-> baseIRR, multiple |-> baseMultiple,
                     payback |-> basePayback],
   optimistic   |-> [irr |-> conservativeIRR, multiple |-> conservativeMultiple,
                     payback |-> optimisticPayback],
   conservative |-> [irr |-> optimisticIRR, multiple |-> optimisticMultiple,
                     payback |-> conservativePayback]]

\* scenarios: { baseCase: {irr, multiple, payback}, optimistic: ..., ... }
Scenarios ==
  [baseCase     |-> [irr |-> baseIRR, multiple |-> baseMultiple,
                     payback |-> basePayback],
   optimistic   |-> [irr |-> optimisticIRR, multiple |-> optimisticMultiple,
                     payback |-> optimisticPayback],
   conservative |-> [irr |-> conservativeIRR, multiple |-> conservativeMultiple,
                     payback |-> conservativePayback]]

\* the 'Exit Valuation' lines of content: investmentAmount * multiple, here in
\* tenths of a dollar because the multiples are in tenths
ExitValuationLines(investmentAmount) ==
  [baseCase     |-> investmentAmount * baseMultiple,
   optimistic   |-> investmentAmount * optimisticMultiple,
   conservative |-> investmentAmount * conservativeMultiple]

generateROIAnalysis(investment) ==
  LET investmentAmount ==
        IF ~investment.given THEN DefaultInvestment
        ELSE IF investment.value = 0 THEN DefaultInvestment
        ELSE investment.value
  IN [content     |-> ExitValuationLines(investmentAmount),
      scenarios   |-> Scenarios,
      assumptions |-> [investmentAmount |-> investmentAmount, timeHorizon |-> 5]]

\* the ROI analyzer is applied to one request's assumptions
ROIAnalysis ==
  Return("roi", generateROIAnalysis(calc.in.investment))

\* longest series of a request
MaxSeriesLen == 3

\* yearly amounts in thousands of dollars
RevenueValues == {0, 1000, 1050, 1150}

NetIncomeValues == {0, 150}

EbitdaValues == {200}

CashFlowValues == {250}

\* financialData.revenue, netIncome, ebitda and cashFlow: each absent or an
\* array, which may be empty
RevenueInputs == {NoSeries} \cup {Given(v) : v \in SeqsUpTo(RevenueValues, MaxSeriesLen)}

NetIncomeInputs == {NoSeries} \cup {Given(v) : v \in SeqsUpTo(NetIncomeValues, MaxSeriesLen)}

EbitdaInputs == {NoSeries} \cup {Given(v) : v \in SeqsUpTo(EbitdaValues, MaxSeriesLen)}

CashFlowInputs == {NoSeries} \cup {Given(v) : v \in SeqsUpTo(CashFlowValues, MaxSeriesLen)}

\* financialData.revenue || [1200000, 1500000, 1800000, 2500000, 3200000]
DefaultRevenue == <<1200, 1500, 1800, 2500, 3200>>

\* financialData.netIncome || [180000, 225000, 270000, 375000, 480000]
DefaultNetIncome == <<180, 225, 270, 375, 480>>

\* financialData.cashFlow || [240000, 300000, 360000, 500000, 640000]
DefaultCashFlow == <<240, 300, 360, 500, 640>>

\* netIncome.map(n => Math.round(n * 1.5)): one entry per entry of netIncome
\* (the thousands are truncated here)
DefaultEbitda(netIncome) == [i \in 1..Len(netIncome) |-> (netIncome[i] * 3) \div 2]

\* arr[i] of JavaScript: undefined outside the array
At(arr, i) ==
  IF i \in 1..Len(arr) THEN [defined |-> TRUE, value |-> arr[i]]
  ELSE [defined |-> FALSE, value |-> 0]

NaN == [kind |-> "NaN", num |-> 0, den |-> 0, root |-> 0]

Infinity == [kind |-> "Infinity", num |-> 0, den |-> 0, root |-> 0]

\* a / b of two non-negative numbers or undefined
JSDiv(a, b) ==
  IF ~a.defined \/ ~b.defined THEN NaN
  ELSE IF b.value = 0 THEN (IF a.value = 0 THEN NaN ELSE Infinity)
  ELSE [kind |-> "finite", num |-> a.value, den |-> b.value, root |-> 1]

\* Math.pow(x, 1 / periods) for the quotient x: 1 / 0 is Infinity, and
\* Math.pow(1, Infinity) is NaN
JSPowInverse(x, periods) ==
  IF x.kind = "NaN" THEN NaN
  ELSE IF periods = 0
       THEN IF x.kind = "Infinity" THEN Infinity
            ELSE IF x.num > x.den THEN Infinity
            ELSE IF x.num = x.den THEN NaN
            ELSE [kind |-> "finite", num |-> 0, den |-> 1, root |-> 1]
  ELSE IF x.kind = "Infinity" THEN Infinity
  ELSE [x EXCEPT !.root = periods]

\* x.toFixed(1) after x - 1 or x * 100, which keep NaN and Infinity
ToFixed1(x) == IF x.kind = "finite" THEN "digits" ELSE x.kind

\* cagr > t / 20 in binary64 when the root is 1 + t / 20: the double 1.05 is
\* above 1.05, so 1.05 - 1 = 0.050000000000000044 > 0.05 is true; the double
\* 1.15 is below 1.15, so 1.15 - 1 = 0.1499999999999999 > 0.15 is false
AtThreshold(t) == t = 1

\* a comparison in exact arithmetic
ExceedsExactly(x, t) ==
  CASE x.kind = "NaN"      -> FALSE
    [] x.kind = "Infinity" -> TRUE
    [] OTHER               -> x.num * 20 ^ x.root > x.den * (20 + t) ^ x.root

\* cagr > t / 20 for cagr = (num / den) ^ (1 / root) - 1 (0.05 is 1 / 20 and
\* 0.15 is 3 / 20): a comparison with NaN is false, and on the threshold the
\* rounding of the double decides
ExceedsTwentieths(x, t) ==
  CASE x.kind = "NaN"      -> FALSE
    [] x.kind = "Infinity" -> TRUE
    [] OTHER               ->
         \/ x.num * 20 ^ x.root > x.den * (20 + t) ^ x.root
         \/ /\ x.num * 20 ^ x.root = x.den * (20 + t) ^ x.root
            /\ AtThreshold(t)

generateFinancialAnalysis(financialData) ==
  LET revenue   == IF financialData.revenue.given
                   THEN financialData.revenue.value ELSE DefaultRevenue
      netIncome == IF financialData.netIncome.given
                   THEN financialData.netIncome.value ELSE DefaultNetIncome
      ebitda    == IF financialData.ebitda.given
                   THEN financialData.ebitda.value ELSE DefaultEbitda(netIncome)
      cashFlow  == IF financialData.cashFlow.given
                   THEN financialData.cashFlow.value ELSE DefaultCashFlow
      profitMargin == JSDiv(At(netIncome, Len(netIncome)), At(revenue, Len(revenue)))
      cagr == JSPowInverse(JSDiv(At(revenue, Len(revenue)), At(revenue, 1)),
                           Len(revenue) - 1)
  IN [content |-> [cagr |-> ToFixed1(cagr), profitMargin |-> ToFixed1(profitMargin)],
      financialHighlights |->
        <<ToFixed1(cagr), ToFixed1(profitMargin), "Strong cash flow generation",
          "Improving operational efficiency">>,
      growthAnalysis |->
        [growthRate |-> ToFixed1(cagr),
         trend |-> IF ExceedsTwentieths(cagr, 3) THEN "Strong growth"
                   ELSE IF ExceedsTwentieths(cagr, 1) THEN "Moderate growth"
                   ELSE "Steady growth"],
      revenue |-> revenue,
      netIncome |-> netIncome,
      ebitda |-> ebitda,
      cashFlow |-> cashFlow]

\* the financial analyzer is applied to one request's financialData
FinancialAnalysis ==
  Return("financial", generateFinancialAnalysis(calc.in))

\* industryData?.marketSize || 50000000000, in millions
DefaultMarketSize == 50000

\* industryData?.growthRate || 15
DefaultGrowthRate == 15

\* industryData.marketSize (in millions) and industryData.growthRate
MarketSizes == {Absent} \cup {Given(v) : v \in {0, 20000}}

GrowthRates == {Absent} \cup {Given(v) : v \in {0, 8}}

generateMarketAnalysisContent(industryData) ==
  LET marketSize == IF industryData.marketSize.given /\ industryData.marketSize.value # 0
                    THEN industryData.marketSize.value ELSE DefaultMarketSize
      growthRate == IF industryData.growthRate.given /\ industryData.growthRate.value # 0
                    THEN industryData.growthRate.value ELSE DefaultGrowthRate
  IN [content     |-> MarketContent,
      marketSize  |-> marketSize,
      growthRate  |-> growthRate,
      opportunity |-> "Significant market opportunity",
      advantages  |-> <<"positioning", "valueProposition", "scalable", "leadership">>,
      risks       |-> MarketRisks]

\* the market analyzer is applied to one request's industryData
MarketAnalysis ==
  Return("market", generateMarketAnalysisContent(calc.in))

\* extractKeyHighlights: one highlight per truthy property among
\* financialAnalysis.growthRate, financialAnalysis.profitMargin,
\* marketAnalysis.marketSize and marketAnalysis.marketPosition
extractKeyHighlights(financialAnalysis, marketAnalysis) ==
  (IF "growthRate" \in DOMAIN financialAnalysis
   THEN <<"revenueGrowthRate">> ELSE <<>>)
  \o (IF "profitMargin" \in DOMAIN financialAnalysis
      THEN <<"profitMargin">> ELSE <<>>)
  \o (IF "marketSize" \in DOMAIN marketAnalysis /\ marketAnalysis.marketSize # 0
      THEN <<"addressableMarket">> ELSE <<>>)
  \o (IF "marketPosition" \in DOMAIN marketAnalysis
      THEN <<"marketPosition">> ELSE <<>>)

\* compileCIMContent: keyHighlights of the two analyzers' results
KeyHighlights ==
  Return("highlights",
         extractKeyHighlights(generateFinancialAnalysis(calc.in.financialData),
                              generateMarketAnalysisContent(calc.in.industryData)))

\* most risks one analyzer's result supplies
MaxRisks == 2

FinancialRiskInputs == {NoSeries} \cup {Given(v) : v \in SeqsUpTo({"f1", "f2"}, MaxRisks)}

MarketRiskInputs == {NoSeries} \cup {Given(v) : v \in SeqsUpTo({"m1", "m2"}, MaxRisks)}

\* compileCIMContent: the riskFactors section's content
RiskFactors ==
  Return("risks", extractRiskFactors(calc.in.financialRisks, calc.in.marketRisks))

\* marketAnalysis.content: undefined or a string
MarketContentInputs ==
  {NoSeries} \cup {Given(v) : v \in SeqsUpTo({"ws", "text", "growthStrategy"}, MaxTextLen)}

\* compileCIMContent: the marketAnalysis section's content
Augment ==
  Return("augment", AugmentMarket(calc.in))

NextCalc ==
  \/ RenderDocument
  \/ ROIAnalysis
  \/ FinancialAnalysis
  \/ MarketAnalysis
  \/ KeyHighlights
  \/ RiskFactors
  \/ Augment

InitCalc == calc = NoCalc

\* one call with its input drawn from the bounded sets
DrawCall ==
  \/ \E d \in Documents \cup {CompiledSections} : calc = Call("render", d)
  \/ \E marketSize \in MarketSizes, growthRate \in GrowthRates :
       calc = Call("market", [marketSize |-> marketSize, growthRate |-> growthRate])
  \/ \E revenue \in RevenueInputs, marketSize \in MarketSizes, growthRate \in GrowthRates :
       calc = Call("highlights",
                   [financialData |-> [revenue |-> revenue, netIncome |-> NoSeries,
                                       ebitda |-> NoSeries, cashFlow |-> NoSeries],
                    industryData |-> [marketSize |-> marketSize,
                                      growthRate |-> growthRate]])
  \/ \E financialRisks \in FinancialRiskInputs, marketRisks \in MarketRiskInputs :
       calc = Call("risks", [financialRisks |-> financialRisks,
                             marketRisks |-> marketRisks])
  \/ \E content \in MarketContentInputs : calc = Call("augment", content)
  \/ \E investment \in Investments, revenueGiven \in BOOLEAN :
       calc = Call("roi", [investment |-> investment, revenueGiven |-> revenueGiven])
  \/ \E revenue \in RevenueInputs, netIncome \in NetIncomeInputs,
        ebitda \in EbitdaInputs, cashFlow \in CashFlowInputs :
       calc = Call("financial", [revenue |-> revenue, netIncome |-> netIncome,
                                 ebitda |-> ebitda, cashFlow |-> cashFlow])

----------------------------------------------------------------------------
(* Specifications *)

Init == InitGen /\ InitPDF /\ InitStore /\ InitCalc

\* the generation pipeline
Spec == Init /\ [][Next]_vars

\* the export
SpecPDF == Init /\ [][NextPDF]_vars

\* the AI service constructed without a key
InitNoKey == Init /\ ~apiKey

\* the company and CIM routes
SpecStore == InitNoKey /\ [][NextStore]_vars

InitCall == InitGen /\ ~apiKey /\ InitPDF /\ InitStore /\ DrawCall

\* the pure functions, each applied to the input of the call
SpecCalc == InitCall /\ [][NextCalc]_vars

----------------------------------------------------------------------------
(* Claims *)

AllFulfilled == \A a \in Analyzers : task[a] = "fulfilled"

SomeRejected == \E a \in Analyzers : task[a] = "rejected"

\* C1: whenever AI is enabled and the backend call throws, the
\* generateExecutiveSummary call still returns success carrying the non-empty
\* static template, and the request does not end in an error.
C1_BackendFailureNeverFails ==
  aiCall = "threw" =>
    /\ summary.success
    /\ summary.path = "fallback"
    /\ summary.text = FallbackTemplate
    /\ SummaryContent(summary.text) # <<>>
    /\ result # "error"

\* C2: for every valid minimal input (stored company, financialData object,
\* known templateId) the document returned by generateCIMContent holds the
\* five required sections, each with non-empty content, whatever the backend
\* does.
C2_RequiredSectionsNonEmpty ==
  (req.route = "generate" /\ req.templateId \in OwnTemplates /\ result = "success") =>
    \A k \in requiredSections :
      /\ k \in DOMAIN doc.sections
      /\ doc.sections[k].body # <<>>

\* C3: if any analyzer throws, the generation ends in an error, no document
\* is returned, the synthesizer is never invoked for the request and no
\* analyzer is run a second time.
C3_AnalyzerFailureIsFatal ==
  SomeRejected =>
    /\ synthCalls = 0
    /\ aiCalls = 0
    /\ doc = NoDoc
    /\ result # "success"
    /\ pc \in {"awaitAll", "done"}
    /\ pc = "done" => result = "error"
    /\ \A a \in Analyzers : runs[a] = 1

C3_Witness ==
  /\ req.route = "generate"
  /\ task["financial"] = "rejected"
  /\ task["market"] = "fulfilled"
  /\ task["roi"] = "fulfilled"
  /\ pc = "done"
  /\ result = "error"

\* C4: generateCIMContent called with a templateId the registry does not
\* hold ends in an error and produces no document.
C4_UnknownTemplateIsFatal ==
  (req.route = "generate" /\ req.templateId \notin OwnTemplates /\ pc = "done") =>
    /\ result = "error"
    /\ doc = NoDoc

\* C5: in generateCIMContent and in the comprehensive-analysis route the
\* synthesizer is invoked only after all three analyzers have completed
\* successfully, in every order in which they settle.
C5_SynthesizerAfterBarrier ==
  (req.route \in {"generate", "comprehensive"} /\ (pc = "synth" \/ synthCalls > 0)) =>
    AllFulfilled

C5_Witness ==
  /\ req.route = "comprehensive"
  /\ synthCalls = 1
  /\ AllFulfilled
  /\ result = "success"

\* C6: when an export call has returned or thrown, the browser it launched
\* is closed, on every exit path; no sequence of export calls leaves a
\* launched browser open.
C6_BrowserClosedOnExit ==
  pdf.pc \in {"idle", "done"} =>
    /\ pdf.browser # "open"
    /\ openBrowsers = 0

C6_Witness ==
  /\ pdf.pc = "done"
  /\ pdf.browser = "closed"
  /\ pdf.result = "threw"
  /\ pdf.failure = "capture"
  /\ pdf.waitTimedOut

\* C7: exportToPDF throws only if template compilation fails; every other
\* problem during export ends in a returned output.
C7_ThrowsOnlyOnTemplateError ==
  (pdf.pc = "done" /\ pdf.result = "threw") => pdf.failure = "template"

\* C8: when the wait for the chart signal times out, the call goes on to the
\* PDF capture and returns its output; the timeout alone never fails the
\* export nor stops it before the capture.
C8_WaitTimeoutProceeds ==
  pdf.waitTimedOut =>
    /\ pdf.pc \in {"capture", "finally", "done"}
    /\ pdf.failure \in {"none", "capture"}
    /\ (pdf.pc = "done" /\ pdf.failure = "none") =>
         (pdf.result = "returned" /\ pdf.output = "pdfBuffer")

C8_Witness ==
  /\ pdf.waitTimedOut
  /\ pdf.pc = "done"
  /\ pdf.result = "returned"
  /\ pdf.output = "pdfBuffer"

\* C9: when AI is not enabled the backend is never invoked, every summary
\* comes from the static template, and generateExecutiveSummary throws only
\* where the static template itself throws (a non-string industry), never
\* for the missing credential.
C9_DisabledUsesFallback ==
  ~isAIEnabled =>
    /\ aiCalls = 0
    /\ aiCall = "none"
    /\ pc # "awaitAI"
    /\ summary.success => (summary.path = "fallback" /\ summary.text = FallbackTemplate)
    /\ (synthCalls > 0 /\ ~summary.success) =>
         (result = "error" /\ generateExecutiveSummaryContent(req.industry).threw)

C9_Witness ==
  /\ ~apiKey
  /\ ~isAIEnabled
  /\ synthCalls = 1
  /\ summary.success
  /\ summary.path = "fallback"
  /\ result = "success"

\* C10: the synthesizer bounds its wait for the backend: a request that has
\* not finished can always take a step, so a backend that never responds
\* cannot keep generateExecutiveSummary from completing.
C10_BackendWaitIsBounded ==
  pc \in {"idle", "done"} \/ ENABLED Next

\* C11: within one call of generateExecutiveSummary the AI backend is invoked
\* at most once; after its failure the fallback runs once and the backend is
\* not invoked again; no other stage of the pipeline runs twice in a request.
C11_NoRetry ==
  /\ aiCalls <= 1
  /\ synthCalls <= 1
  /\ \A a \in Analyzers : runs[a] <= 1
  /\ aiCall = "threw" =>
       /\ aiCalls = 1
       /\ pc \in {"compile", "done"}
       /\ summary.path = "fallback" \/ result = "error"

\* the backend failed once and the request ended on the fallback's summary
C11_Witness ==
  /\ aiCall = "threw"
  /\ aiCalls = 1
  /\ pc = "done"
  /\ result = "success"
  /\ summary.path = "fallback"

\* C12: an export of a document that lacks a required section ends in a
\* validation failure, which is not the failure of a rendering step.
C12_MissingSectionFailsValidation ==
  (pdf.pc = "done" /\ validateCIMContent(pdf.sections).threw) =>
    /\ pdf.result = "threw"
    /\ pdf.failure = "validation"

C15_GenerateKeepsStatus ==
  [][resp'.op = "generateCIM" =>
       \A c \in CimIds :
         cims'[c] = [cims[c] EXCEPT !.content = cims'[c].content,
                                    !.aiAnalysis = cims'[c].aiAnalysis]]_vars

\* an approved document was regenerated and is still approved
C15_Witness ==
  /\ resp.op = "generateCIM"
  /\ resp.ok
  /\ \E c \in CimIds :
       /\ cims[c].userId = resp.user
       /\ cims[c].content = "generated"
       /\ cims[c].status = "APPROVED"

C17_IsolatedByUser ==
  /\ resp.owners \subseteq {resp.user}
  /\ \A c \in CimIds :
       cims[c] # NoCim => companies[cims[c].companyId] = cims[c].userId

\* both users hold a CIM, one asks for the other's CIM and is refused
C17_Witness ==
  /\ \E c, d \in CimIds : cims[c].userId = "u1" /\ cims[d].userId = "u2"
  /\ resp.op \in {"getCIM", "updateCIM", "generateCIM", "exportCIM", "deleteCIM"}
  /\ ~resp.ok
  /\ resp.owners = {}

\* C13: the sections are rendered in ascending order of their order values,
\* and two documents with the same sections and order values but another
\* insertion order of the keys render in the same sequence.
C13_RenderedInAscendingOrder ==
  (calc.op = "render" /\ calc.done) =>
    /\ \A i, j \in 1..Len(calc.out) :
         i < j => calc.in.order[calc.out[i]] <= calc.in.order[calc.out[j]]
    /\ \A p \in Perms(DOMAIN calc.in.order) :
         RenderSequence(formatSectionsForTemplate([calc.in EXCEPT !.keys = p]))
           = calc.out

\* C18: every scenario carries exitValuation, the investment amount times the
\* scenario's multiple.
C18_ScenariosCarryExitValuation ==
  (calc.op = "roi" /\ calc.done) =>
    \A s \in DOMAIN calc.out.scenarios :
      /\ "exitValuation" \in DOMAIN calc.out.scenarios[s]
      /\ calc.out.scenarios[s].exitValuation * 10
           = calc.out.assumptions.investmentAmount * calc.out.scenarios[s].multiple

\* C19: for every investment amount and series the optimistic scenario's irr
\* and multiple are at least the base case's, and the base case's at least
\* the conservative scenario's.
C19_ScenariosOrdered ==
  (calc.op = "roi" /\ calc.done) =>
    LET sc == calc.out.scenarios
    IN /\ sc.optimistic.irr >= sc.baseCase.irr
       /\ sc.baseCase.irr >= sc.conservative.irr
       /\ sc.optimistic.multiple >= sc.baseCase.multiple
       /\ sc.baseCase.multiple >= sc.conservative.multiple

\* the analyzer ran on a positive investment other than the default
C19_Witness ==
  /\ calc.op = "roi"
  /\ calc.done
  /\ calc.in.investment = Given(1000000)
  /\ calc.in.revenueGiven
  /\ calc.out.assumptions.investmentAmount = 1000000

\* C20: for a revenue series of one entry the CAGR is reported as
\* not-applicable, and no NaN or Infinity reaches growthAnalysis.growthRate,
\* the highlights or the narrative.
C20_SingleEntryCAGRNotApplicable ==
  (calc.op = "financial" /\ calc.done /\ Len(calc.out.revenue) = 1) =>
    /\ calc.out.growthAnalysis.growthRate = "not-applicable"
    /\ calc.out.financialHighlights[1] \notin {"NaN", "Infinity"}
    /\ calc.out.content.cagr \notin {"NaN", "Infinity"}

\* C21: for a series whose last revenue (the margin's denominator) is zero
\* the margin is reported as not-applicable, not as a number, NaN or Infinity.
C21_ZeroRevenueMarginNotApplicable ==
  (/\ calc.op = "financial"
   /\ calc.done
   /\ Len(calc.out.revenue) > 0
   /\ calc.out.revenue[Len(calc.out.revenue)] = 0) =>
    /\ calc.out.content.profitMargin = "not-applicable"
    /\ calc.out.financialHighlights[2] = "not-applicable"

C29_RawSeriesEqualLength ==
  (calc.op = "financial" /\ calc.done) =>
    /\ Len(calc.out.netIncome) = Len(calc.out.revenue)
    /\ Len(calc.out.ebitda) = Len(calc.out.revenue)
    /\ Len(calc.out.cashFlow) = Len(calc.out.revenue)

\* C22: the result of the financial or the market analyzer carries
\* usedDefaults, true exactly when a default was substituted for an input.
C22_UsedDefaultsFlag ==
  (calc.done /\ calc.op \in {"financial", "market"}) =>
    /\ "usedDefaults" \in DOMAIN calc.out
    /\ calc.out.usedDefaults = (\E f \in DOMAIN calc.in : ~calc.in[f].given)

\* C24: augmenting an augmented content changes nothing, a content that
\* holds the Growth Strategy block is left as it is, and every other content
\* (empty or missing included) gets the block once.
C24_AugmentIdempotent ==
  (calc.op = "augment" /\ calc.done) =>
    LET text == IF calc.in.given THEN calc.in.value ELSE <<>>
    IN /\ AugmentMarket(Given(calc.out)) = calc.out
       /\ Includes(text, "growthStrategy") => calc.out = text
       /\ ~Includes(text, "growthStrategy") => calc.out = text \o GrowthStrategyBlock

\* a missing content was augmented
C24_Witness ==
  /\ calc.op = "augment"
  /\ calc.done
  /\ ~calc.in.given
  /\ calc.out = GrowthStrategyBlock

\* C25: the riskFactors content holds exactly the risks the two results
\* supply, and it is the five default statements exactly when they supply
\* none; defaults and supplied risks never appear together.
C25_RisksUnionOrDefaults ==
  (calc.op = "risks" /\ calc.done) =>
    LET Range(q) == {q[i] : i \in 1..Len(q)}
        supplied == Range(calc.in.financialRisks.value)
                      \cup Range(calc.in.marketRisks.value)
    IN IF supplied = {}
       THEN calc.out = DefaultRisks
       ELSE /\ Range(calc.out) = supplied
            /\ Range(calc.out) \cap Range(DefaultRisks) = {}

\* both results supplied risks
C25_Witness ==
  /\ calc.op = "risks"
  /\ calc.done
  /\ calc.in.financialRisks = Given(<<"f1">>)
  /\ calc.in.marketRisks = Given(<<"m1", "m2">>)
  /\ calc.out = <<"f1", "m1", "m2">>

\* C27: the key highlights of a generated document hold at least one
\* highlight of the financial result and at least one of the market result.
C27_HighlightsFromBothResults ==
  (calc.op = "highlights" /\ calc.done) =>
    /\ \E i \in 1..Len(calc.out) : calc.out[i] \in {"revenueGrowthRate", "profitMargin"}
    /\ \E i \in 1..Len(calc.out) : calc.out[i] \in {"addressableMarket", "marketPosition"}

\* C30: every one of the eight sections of a compiled document is in the
\* markup the built-in template renders.
C30_EverySectionRendered ==
  (calc.op = "render" /\ calc.done /\ DOMAIN calc.in.order = SectionKeys) =>
    \A k \in SectionKeys : \E i \in 1..Len(calc.out) : calc.out[i] = k

\* C23: an export of a document whose financial series is empty or absent
\* returns the PDF, and the markup holds no chart: no SVG chart and no canvas
\* (failures of the browser and of the template file set aside).
C23_EmptySeriesNoChart ==
  (/\ pdf.pc = "done"
   /\ pdf.financialData \in {"absent", "emptyRevenue"}
   /\ pdf.sections \in {"generated", "edited", "missing"}
   /\ pdf.failure \notin {"launch", "newPage", "template", "setContent", "capture"}) =>
    /\ pdf.result = "returned"
    /\ ~pdf.chartSvg
    /\ ~CanvasInMarkup(pdf.sections)

\* C28: a generate request that fails leaves every stored row as it was; one
\* that succeeds stores the compiled content and the aiAnalysis together, in
\* the requester's row only.
C28_FailedGenerateStoresNothing ==
  [][resp'.op = "generateCIM" =>
       /\ ~resp'.ok => cims' = cims
       /\ resp'.ok =>
            \E c \in CimIds :
              /\ cims[c].userId = resp'.user
              /\ cims'[c].content = "generated"
              /\ cims'[c].aiAnalysis
              /\ \A d \in CimIds \ {c} : cims'[d] = cims[d]]_vars

\* a generation failed for a document edited before, which is still as edited
C28_Witness ==
  /\ resp.op = "generateCIM"
  /\ ~resp.ok
  /\ resp.owners # {}
  /\ \E c \in CimIds :
       /\ cims[c].userId = resp.user
       /\ cims[c].content = "edited"
       /\ ~cims[c].aiAnalysis

============================================================================
